---- MODULE Spec2Model ----
(***************************************************************************)
(* Model of the OAuth token lifecycle of GHL-Utils: the credential store   *)
(* (database/credentialsManagement.py over the sqlite table `users`), the  *)
(* token lifecycle manager (llib/tokenManagement.py) and the OAuth         *)
(* callback handler (server.py), against an upstream token endpoint that   *)
(* rotates refresh tokens.                                                 *)
(*                                                                         *)
(* Python values are records [type, val]: val is an integer that stands    *)
(* for the value (0 is the empty string / zero, other numbers are opaque   *)
(* non-empty strings or the integer itself).                               *)
(***************************************************************************)
EXTENDS Integers, Sequences, FiniteSets, TLC

VARIABLES users, now, upstream, issued, proc

vars == <<users, now, upstream, issued, proc>>

----------------------------------------------------------------------------
(* Bounds *)

MaxTime == 2
MaxIssued == 2
MaxItems == 3

----------------------------------------------------------------------------
(* Python values *)

None == [type |-> "NoneType", val |-> 0]
PyStr(n) == [type |-> "str", val |-> n]
PyInt(n) == [type |-> "int", val |-> n]
PyFloat(n) == [type |-> "float", val |-> n]
True == [type |-> "bool", val |-> 1]

\* bool(v): None, "", 0 and 0.0 are falsy, everything else is truthy
Truthy(v) == v.type # "NoneType" /\ v.val # 0

\* isinstance(v, int): bool is a subclass of int
isinstance_int(v) == v.type \in {"int", "bool"}

\* all([...]) over a sequence of values
all(vs) == \A i \in 1..Len(vs) : Truthy(vs[i])

\* the n-th token pair the upstream issues
AccessTok(n) == PyStr(2 * n - 1)
RefreshTok(n) == PyStr(2 * n)

\* tokens a caller passes to store_credentials directly ("tokA", "refA")
tokA == PyStr(-1)
refA == PyStr(-2)

loc1 == PyStr(101)
loc2 == PyStr(102)

\* the tenants the upstream knows
Locations == DOMAIN upstream

\* exceptions: class name and message, outermost prefix first
Exc(kind, msg) == [kind |-> kind, msg |-> msg]
NoExc == Exc("", <<>>)
ValueError(m) == Exc("ValueError", <<m>>)
RuntimeError(m) == Exc("RuntimeError", m)

\* requests.exceptions.RequestException and its subclasses
IsRequestException(e) == e.kind \in {"ConnectionError", "HTTPError"}

----------------------------------------------------------------------------
(* The sqlite table `users` *)

Row(l, a, r, e) ==
    [location_id |-> l, company_id |-> None,
     access_token |-> a, refresh_token |-> r, expires_at |-> e]

\* sqlite3's default adapter stores a datetime as its ISO text
adapt_datetime(t) == [type |-> "str", val |-> t]

\* datetime.fromisoformat on the stored text
fromisoformat(s) == s.val

\* timestamps are never the empty string: the truth value of the stored
\* text is decided by its type alone
TruthyTimestamp(s) == s.type = "str"

\* slip: a plain INSERT into a table without the primary key
InsertOnly(table, row) == table \cup {row}

\* slip: INSERT OR IGNORE, the row already there is kept
InsertOrIgnore(table, row) ==
    IF \E r \in table : r.location_id = row.location_id
    THEN table
    ELSE table \cup {row}

\* INSERT OR REPLACE INTO users: location_id is the PRIMARY KEY, so a row
\* with the same key is deleted before the new row is inserted
InsertOrReplace(table, row) ==
    {r \in table : r.location_id # row.location_id} \cup {row}

\* slip: the WHERE clause is missing
SelectAnyTenant(table, l) == table

\* SELECT ... WHERE location_id = ? ; fetchone()
Select(table, l) == {r \in table : r.location_id = l}

----------------------------------------------------------------------------
(* Inputs *)

DbOutcomes == {"ok", "no_conn", "error"}

ExpiresInValues == {None, PyInt(-1), PyInt(0), PyInt(1), PyFloat(2)}

TokenInputsA == {None, PyStr(0), tokA}
TokenInputsR == {None, PyStr(0), refA}
LocationInputs == {None, PyStr(0)} \cup Locations

----------------------------------------------------------------------------
(* Pure parts of the store *)

\* slip: the check of access_token is missing
validate_store_credentials_no_access(location_id, access_token, refresh_token, expires_in) ==
    IF ~Truthy(location_id)
    THEN ValueError("Missing required parameter: location_id")
    ELSE IF ~Truthy(refresh_token)
    THEN ValueError("Missing required parameter: refresh_token")
    ELSE IF ~Truthy(expires_in) \/ ~isinstance_int(expires_in)
    THEN ValueError("Invalid parameter: expires_in must be a valid integer")
    ELSE NoExc

\* slip: the check of refresh_token is missing
validate_store_credentials_no_refresh(location_id, access_token, refresh_token, expires_in) ==
    IF ~Truthy(location_id)
    THEN ValueError("Missing required parameter: location_id")
    ELSE IF ~Truthy(access_token)
    THEN ValueError("Missing required parameter: access_token")
    ELSE IF ~Truthy(expires_in) \/ ~isinstance_int(expires_in)
    THEN ValueError("Invalid parameter: expires_in must be a valid integer")
    ELSE NoExc

\* store_credentials, input validation: the exception raised, NoExc if none
validate_store_credentials(location_id, access_token, refresh_token, expires_in) ==
    IF ~Truthy(location_id)
    THEN ValueError("Missing required parameter: location_id")
    ELSE IF ~Truthy(access_token)
    THEN ValueError("Missing required parameter: access_token")
    ELSE IF ~Truthy(refresh_token)
    THEN ValueError("Missing required parameter: refresh_token")
    ELSE IF ~Truthy(expires_in) \/ ~isinstance_int(expires_in)
    THEN ValueError("Invalid parameter: expires_in must be a valid integer")
    ELSE NoExc

\* slip: the TTL is not added
calculate_expires_at_no_ttl(current_time, expires_in) == current_time

\* expires_at = current_time + timedelta(seconds=expires_in)
calculate_expires_at(current_time, expires_in) == current_time + expires_in.val

\* slip: a missing record is reported as an error
get_credentials_missing_raises(table, location_id, db) ==
    IF ~Truthy(location_id)
    THEN [exc |-> ValueError("Missing required parameter: location_id"),
          value |-> <<>>]
    ELSE IF db = "no_conn"
    THEN [exc |-> RuntimeError(<<"Failed to establish database connection">>),
          value |-> <<>>]
    ELSE IF db = "error"
    THEN [exc |-> RuntimeError(<<"Database error while retrieving credentials">>),
          value |-> <<>>]
    ELSE LET result == Select(table, location_id)
         IN  IF result # {}
             THEN [exc |-> NoExc, value |-> <<CHOOSE r \in result : TRUE>>]
             ELSE [exc |-> RuntimeError(<<"Database error while retrieving credentials">>),
                   value |-> <<>>]

\* get_credentials as one SELECT against the table: the exception raised
\* (NoExc if none) and the value returned (<<>> is None, <<row>> a record)
get_credentials(table, location_id, db) ==
    IF ~Truthy(location_id)
    THEN [exc |-> ValueError("Missing required parameter: location_id"),
          value |-> <<>>]
    ELSE IF db = "no_conn"
    THEN [exc |-> RuntimeError(<<"Failed to establish database connection">>),
          value |-> <<>>]
    ELSE IF db = "error"
    THEN [exc |-> RuntimeError(<<"Database error while retrieving credentials">>),
          value |-> <<>>]
    ELSE LET result == Select(table, location_id)
         IN  IF result # {}
             THEN [exc |-> NoExc, value |-> <<CHOOSE r \in result : TRUE>>]
             ELSE [exc |-> NoExc, value |-> <<>>]

----------------------------------------------------------------------------
(* Callers: each runs one operation at a time, step by step *)

Callers == {1}
AllCallers == {1, 2}

Idle ==
    [pc |-> "idle", op |-> "", outcome |-> "",
     location_id |-> None, access_token |-> None, refresh_token |-> None,
     expires_in |-> None, expires_at |-> 0, txn |-> <<>>,
     credentials |-> <<>>, raf_credentials |-> <<>>,
     token_data |-> <<>>, sent |-> None,
     result |-> None, exc |-> NoExc,
     \* history of the call, read only by the properties
     pre |-> {}, io |-> <<>>, branch |-> "", stale |-> <<>>,
     checked_at |-> 0, stored_at |-> 0, raf_exc |-> NoExc,
     cause |-> "", returned_at |-> 0, first |-> <<>>, overwrote |-> <<>>,
     \* get_inventory: the token in its headers, the body of the count
     \* response, and (history) how ensure_valid_token ended and the
     \* requests sent
     bearer |-> None, count_data |-> <<>>,
     evt_exc |-> NoExc, evt_result |-> <<>>, sends |-> <<>>,
     \* check_inventory: its argument and the dict it returns
     inventory_data |-> <<>>, analysis |-> <<>>]

\* a caller starts operation op; pre remembers the table at that moment
Begin(op, table) == [Idle EXCEPT !.op = op, !.pre = table]

Returned(pr, v, t) ==
    [pr EXCEPT !.pc = "done", !.outcome = "returned", !.result = v,
               !.returned_at = t]

Raised(pr, e) ==
    [pr EXCEPT !.pc = "done", !.outcome = "raised", !.exc = e]

\* slip: the ValueError clause is missing, every exception is wrapped
evt_except_wrap_all(e) ==
    RuntimeError(<<"Error ensuring valid token">> \o e.msg)

\* ensure_valid_token, lines 139-145: ValueError is re-raised, everything
\* else is wrapped in a RuntimeError
evt_except(e) ==
    IF e.kind = "ValueError"
    THEN e
    ELSE RuntimeError(<<"Error ensuring valid token">> \o e.msg)

\* get_inventory, lines 95-102
inv_except(e) ==
    IF IsRequestException(e)
    THEN RuntimeError(<<"API request failed">> \o e.msg)
    ELSE RuntimeError(<<"Unexpected error getting inventory">> \o e.msg)

\* the call runs ensure_valid_token, directly or inside get_inventory
InEnsure(pr) == pr.op \in {"ensure_valid_token", "get_inventory"}

\* slip: get_inventory carries on without a token when ensure_valid_token
\* has failed
evt_raise_carry_on(pr, e) ==
    IF pr.op = "get_inventory"
    THEN [pr EXCEPT !.pc = "inv_count", !.evt_exc = e]
    ELSE Raised(pr, e)

\* an exception leaves ensure_valid_token
evt_raise(pr, e) ==
    IF pr.op = "get_inventory"
    THEN Raised([pr EXCEPT !.evt_exc = e], inv_except(e))
    ELSE Raised(pr, e)

\* ensure_valid_token returns the access token v; get_inventory puts it in
\* the Authorization header (queryInventory.py lines 37-47)
evt_return(pr, v, t) ==
    IF pr.op = "get_inventory"
    THEN [pr EXCEPT !.pc = "inv_count", !.bearer = v, !.evt_result = <<v>>]
    ELSE Returned(pr, v, t)

\* slip: the generic clause comes first and shadows the RequestException one
raf_except_generic(e) ==
    RuntimeError(<<"Unexpected error during token refresh">> \o e.msg)

\* refresh_access_token, lines 87-94
raf_except(e) ==
    IF IsRequestException(e)
    THEN RuntimeError(<<"Failed to refresh token">> \o e.msg)
    ELSE RuntimeError(<<"Unexpected error during token refresh">> \o e.msg)

\* refresh_access_token, lines 43-46
raf_load_except(e) ==
    RuntimeError(<<"Failed to retrieve credentials">> \o e.msg)

\* authenticate, lines 429-452: the HTTP status of the failure response
auth_except(e) ==
    IF IsRequestException(e) THEN 500
    ELSE IF e.kind = "ValueError" THEN 400
    ELSE 500

\* slip: ensure_valid_token swallows the refresh error and carries on
raf_raise_swallow(pr, e, t) ==
    IF InEnsure(pr)
    THEN [pr EXCEPT !.pc = "evt_reload", !.raf_exc = e]
    ELSE Raised(pr, e)

\* slip: a failed exchange is retried once inside the call
raf_raise_retry(pr, e, t) ==
    IF pr.cause \in {"network", "upstream"} /\ Len(pr.io) < 6
    THEN [pr EXCEPT !.pc = "raf_post"]
    ELSE IF InEnsure(pr)
    THEN evt_raise([pr EXCEPT !.raf_exc = e], evt_except(e))
    ELSE Raised(pr, e)

\* an exception leaves refresh_access_token
raf_raise(pr, e, t) ==
    IF InEnsure(pr)
    THEN evt_raise([pr EXCEPT !.raf_exc = e], evt_except(e))
    ELSE Raised(pr, e)

\* refresh_access_token returns True
raf_return(pr, t) ==
    IF InEnsure(pr)
    THEN [pr EXCEPT !.pc = "evt_reload"]
    ELSE Returned(pr, True, t)

\* an exception leaves store_credentials
sc_raise(pr, e, t) ==
    IF pr.op = "store_credentials" THEN Raised(pr, e)
    ELSE IF pr.op = "authenticate"
    THEN Returned([pr EXCEPT !.exc = e], PyInt(auth_except(e)), t)
    ELSE raf_raise([pr EXCEPT !.cause = IF e.kind = "ValueError"
                                        THEN "validation" ELSE "storage"],
                   raf_except(e), t)

\* store_credentials returns True
sc_return(pr, t) ==
    IF pr.op = "store_credentials" THEN Returned(pr, True, t)
    ELSE IF pr.op = "authenticate" THEN Returned(pr, PyInt(200), t)
    ELSE raf_return(pr, t)

\* store_credentials is entered: validation, then the expiry is computed
\* from the store's clock (lines 27-57)
enter_store_credentials(pr, l, a, r, e, t) ==
    LET fr == [pr EXCEPT !.location_id = l, !.access_token = a,
                         !.refresh_token = r, !.expires_in = e,
                         !.io = @ \o <<"store_credentials">>]
        bad == validate_store_credentials(l, a, r, e)
    IN  IF bad # NoExc
        THEN sc_raise(fr, bad, t)
        ELSE [fr EXCEPT !.pc = "sc_execute", !.stored_at = t,
                        !.expires_at = calculate_expires_at(t, e)]

----------------------------------------------------------------------------
(* The upstream OAuth token endpoint *)

\* the tenants whose current refresh token is the one presented
Owners(refresh_token) == {l \in Locations : upstream[l] = refresh_token}

\* the bodies a 2xx response can carry when the n-th pair was issued: every
\* field may be present or absent, expires_in is any value; ids are the
\* values of locationId (the refresh grant's response carries none)
Responses(n, ids) ==
    [access_token : {AccessTok(n), None},
     refresh_token : {RefreshTok(n), None},
     expires_in : ExpiresInValues,
     locationId : ids]

----------------------------------------------------------------------------
(* Initial state: init_db has created the empty table *)

Init ==
    /\ users = {}
    /\ now = 0
    /\ upstream = [l \in {loc1} |-> None]
    /\ issued = 0
    /\ proc = [p \in AllCallers |-> Idle]

----------------------------------------------------------------------------
(* store_credentials *)

\* a caller invokes store_credentials(location_id, access_token,
\* refresh_token, expires_in)
store_credentials(p, l, a, r, e) ==
    /\ proc[p].pc = "idle"
    /\ proc' = [proc EXCEPT ![p] =
           enter_store_credentials(Begin("store_credentials", users),
                                   l, a, r, e, now)]
    /\ UNCHANGED <<users, now, upstream, issued>>

\* the caller repeats the store_credentials call that has just returned,
\* with the same arguments; first remembers what get_credentials gave after
\* the first call and the clock that call read
store_credentials_again(p) ==
    LET pr == proc[p] IN
    /\ pr.pc = "done"
    /\ pr.op = "store_credentials"
    /\ pr.outcome = "returned"
    /\ pr.first = <<>>
    /\ proc' = [proc EXCEPT ![p] =
           enter_store_credentials(
               [Begin("store_credentials", users) EXCEPT
                   !.first = <<[value |-> get_credentials(users, pr.location_id, "ok").value,
                                stored_at |-> pr.stored_at]>>],
               pr.location_id, pr.access_token, pr.refresh_token,
               pr.expires_in, now)]
    /\ UNCHANGED <<users, now, upstream, issued>>

\* slip: the tokens are bound to the statement in the wrong order
sc_execute_swapped(p, db) ==
    LET pr == proc[p] IN
    /\ pr.pc = "sc_execute"
    /\ proc' = [proc EXCEPT ![p] =
           IF db = "no_conn"
           THEN sc_raise(pr, RuntimeError(<<"Failed to establish database connection">>), now)
           ELSE IF db = "error"
           THEN sc_raise(pr, RuntimeError(<<"Database error while storing credentials">>), now)
           ELSE [pr EXCEPT !.pc = "sc_commit",
                           !.txn = <<Row(pr.location_id, pr.refresh_token,
                                         pr.access_token,
                                         adapt_datetime(pr.expires_at))>>]]
    /\ UNCHANGED <<users, now, upstream, issued>>

\* slip: the columns are written one statement at a time with autocommit;
\* the access token of an existing row is replaced before the rest
sc_execute_column_wise(p, db) ==
    LET pr == proc[p] IN
    /\ pr.pc = "sc_execute"
    /\ proc' = [proc EXCEPT ![p] =
           IF db = "no_conn"
           THEN sc_raise(pr, RuntimeError(<<"Failed to establish database connection">>), now)
           ELSE IF db = "error"
           THEN sc_raise(pr, RuntimeError(<<"Database error while storing credentials">>), now)
           ELSE [pr EXCEPT !.pc = "sc_commit",
                           !.txn = <<Row(pr.location_id, pr.access_token,
                                         pr.refresh_token,
                                         adapt_datetime(pr.expires_at))>>]]
    /\ users' = IF db = "ok"
                THEN {[r EXCEPT !.access_token =
                          IF r.location_id = pr.location_id
                          THEN pr.access_token ELSE @] : r \in users}
                ELSE users
    /\ UNCHANGED <<now, upstream, issued>>

\* lines 59-74: connect, then INSERT OR REPLACE inside the connection's
\* transaction; nothing is visible to other connections yet
sc_execute(p, db) ==
    LET pr == proc[p] IN
    /\ pr.pc = "sc_execute"
    /\ proc' = [proc EXCEPT ![p] =
           IF db = "no_conn"
           THEN sc_raise(pr, RuntimeError(<<"Failed to establish database connection">>), now)
           ELSE IF db = "error"
           THEN sc_raise(pr, RuntimeError(<<"Database error while storing credentials">>), now)
           ELSE [pr EXCEPT !.pc = "sc_commit",
                           !.txn = <<Row(pr.location_id, pr.access_token,
                                         pr.refresh_token,
                                         adapt_datetime(pr.expires_at))>>]]
    /\ UNCHANGED <<users, now, upstream, issued>>

\* slip: the error path clears the tenant's row
sc_commit_delete_on_error(p, db) ==
    LET pr == proc[p] IN
    /\ pr.pc = "sc_commit"
    /\ db \in {"ok", "error"}
    /\ IF db = "ok"
       THEN /\ users' = InsertOrReplace(users, pr.txn[1])
            /\ proc' = [proc EXCEPT ![p] =
                   sc_return([pr EXCEPT !.txn = <<>>, !.overwrote = <<users>>,
                                        !.io = @ \o <<"commit">>], now)]
       ELSE /\ users' = users \ Select(users, pr.location_id)
            /\ proc' = [proc EXCEPT ![p] =
                   sc_raise([pr EXCEPT !.txn = <<>>],
                            RuntimeError(<<"Database error while storing credentials">>), now)]
    /\ UNCHANGED <<now, upstream, issued>>

\* slip: the failed transaction is not rolled back
sc_commit_no_rollback(p, db) ==
    LET pr == proc[p] IN
    /\ pr.pc = "sc_commit"
    /\ db \in {"ok", "error"}
    /\ users' = InsertOrReplace(users, pr.txn[1])
    /\ IF db = "ok"
       THEN proc' = [proc EXCEPT ![p] =
                sc_return([pr EXCEPT !.txn = <<>>, !.overwrote = <<users>>,
                                     !.io = @ \o <<"commit">>], now)]
       ELSE proc' = [proc EXCEPT ![p] =
                sc_raise([pr EXCEPT !.txn = <<>>],
                         RuntimeError(<<"Database error while storing credentials">>), now)]
    /\ UNCHANGED <<now, upstream, issued>>

\* lines 76-98: commit; on an error the transaction is rolled back
sc_commit(p, db) ==
    LET pr == proc[p] IN
    /\ pr.pc = "sc_commit"
    /\ db \in {"ok", "error"}
    /\ IF db = "ok"
       THEN /\ users' = InsertOrReplace(users, pr.txn[1])
            /\ proc' = [proc EXCEPT ![p] =
                   sc_return([pr EXCEPT !.txn = <<>>, !.overwrote = <<users>>,
                                        !.io = @ \o <<"commit">>], now)]
       ELSE /\ users' = users
            /\ proc' = [proc EXCEPT ![p] =
                   sc_raise([pr EXCEPT !.txn = <<>>],
                            RuntimeError(<<"Database error while storing credentials">>), now)]
    /\ UNCHANGED <<now, upstream, issued>>

----------------------------------------------------------------------------
(* get_credentials, called directly *)

get_credentials_call(p, l, db) ==
    /\ proc[p].pc = "idle"
    /\ LET got == get_credentials(users, l, db)
           pr == [Begin("get_credentials", users) EXCEPT
                      !.location_id = l, !.io = <<"get">>,
                      !.branch = IF Truthy(l) /\ db # "ok"
                                 THEN "load_failed" ELSE @]
       IN  proc' = [proc EXCEPT ![p] =
               IF got.exc # NoExc
               THEN Raised(pr, got.exc)
               ELSE Returned([pr EXCEPT !.credentials = got.value], None, now)]
    /\ UNCHANGED <<users, now, upstream, issued>>

----------------------------------------------------------------------------
(* refresh_access_token *)

\* lines 31-34: the call is entered
enter_refresh_access_token(pr, l, t) ==
    LET fr == [pr EXCEPT !.io = @ \o <<"refresh_access_token">>] IN
    IF ~Truthy(l)
    THEN raf_raise(fr, ValueError("Missing required parameter: location_id"), t)
    ELSE [fr EXCEPT !.pc = "raf_get"]

refresh_access_token(p, l) ==
    /\ proc[p].pc = "idle"
    /\ proc' = [proc EXCEPT ![p] =
           enter_refresh_access_token(
               [Begin("refresh_access_token", users) EXCEPT !.location_id = l],
               l, now)]
    /\ UNCHANGED <<users, now, upstream, issued>>

\* lines 36-46: load the current record
raf_get(p, db) ==
    LET pr  == [proc[p] EXCEPT !.io = @ \o <<"get">>]
        got == get_credentials(users, pr.location_id, db)
    IN
    /\ proc[p].pc = "raf_get"
    /\ proc' = [proc EXCEPT ![p] =
           IF got.exc # NoExc
           THEN raf_raise([pr EXCEPT !.cause = "load"],
                          raf_load_except(got.exc), now)
           ELSE IF got.value = <<>> \/ ~Truthy(got.value[1].refresh_token)
           THEN raf_raise([pr EXCEPT !.cause = "missing"],
                          raf_load_except(ValueError("No refresh token found for location_id")), now)
           ELSE [pr EXCEPT !.pc = "raf_post", !.raf_credentials = got.value]]
    /\ UNCHANGED <<users, now, upstream, issued>>

\* slip: only the access token of the response is checked
raf_store_unchecked(pr, token_data, t) ==
    LET fr == [pr EXCEPT !.token_data = <<token_data>>] IN
    IF ~all(<<token_data.access_token>>)
    THEN raf_raise([fr EXCEPT !.cause = "incomplete"],
                   raf_except(RuntimeError(<<"Incomplete token response from refresh request">>)), t)
    ELSE enter_store_credentials(fr, fr.location_id, token_data.access_token,
                                 token_data.refresh_token,
                                 token_data.expires_in, t)

\* slip: the refresh token of the loaded record is written back instead of
\* the rotated one
raf_store_keep_refresh(pr, token_data, t) ==
    LET fr == [pr EXCEPT !.token_data = <<token_data>>] IN
    IF ~all(<<token_data.access_token, token_data.refresh_token,
              token_data.expires_in>>)
    THEN raf_raise([fr EXCEPT !.cause = "incomplete"],
                   raf_except(RuntimeError(<<"Incomplete token response from refresh request">>)), t)
    ELSE enter_store_credentials(fr, fr.location_id, token_data.access_token,
                                 pr.raf_credentials[1].refresh_token,
                                 token_data.expires_in, t)

\* lines 72-82: the response body is unpacked and, when complete, stored
raf_store(pr, token_data, t) ==
    LET fr == [pr EXCEPT !.token_data = <<token_data>>] IN
    IF ~all(<<token_data.access_token, token_data.refresh_token,
              token_data.expires_in>>)
    THEN raf_raise([fr EXCEPT !.cause = "incomplete"],
                   raf_except(RuntimeError(<<"Incomplete token response from refresh request">>)), t)
    ELSE enter_store_credentials(fr, fr.location_id, token_data.access_token,
                                 token_data.refresh_token,
                                 token_data.expires_in, t)

\* slip: the grant is sent with the access token of the record
raf_post_access_token(p, net) ==
    LET pr == [proc[p] EXCEPT !.io = @ \o <<"post">>,
                              !.sent = proc[p].raf_credentials[1].access_token]
    IN
    /\ proc[p].pc = "raf_post"
    /\ \/ /\ net = "network"
          /\ proc' = [proc EXCEPT ![p] =
                 raf_raise([pr EXCEPT !.cause = "network"],
                           raf_except(Exc("ConnectionError", <<"connection failed">>)), now)]
          /\ UNCHANGED <<upstream, issued>>
       \/ /\ net = "http_error"
          /\ proc' = [proc EXCEPT ![p] =
                 raf_raise([pr EXCEPT !.cause = "upstream"],
                           raf_except(Exc("HTTPError", <<"non-2xx response">>)), now)]
          /\ UNCHANGED <<upstream, issued>>
       \/ /\ net = "ok"
          /\ issued < MaxIssued
          /\ \E l \in Owners(pr.sent) :
                /\ issued' = issued + 1
                /\ upstream' = [upstream EXCEPT ![l] = RefreshTok(issued + 1)]
                /\ \E token_data \in Responses(issued + 1, {None}) :
                      proc' = [proc EXCEPT ![p] = raf_store(pr, token_data, now)]
    /\ UNCHANGED <<users, now>>

\* lines 63-66: the refresh-token grant is posted; the request cannot
\* complete, or the endpoint rejects it, or it answers 2xx
raf_post(p, net) ==
    LET pr == [proc[p] EXCEPT !.io = @ \o <<"post">>,
                              !.sent = proc[p].raf_credentials[1].refresh_token]
    IN
    /\ proc[p].pc = "raf_post"
    /\ \/ /\ net = "network"
          /\ proc' = [proc EXCEPT ![p] =
                 raf_raise([pr EXCEPT !.cause = "network"],
                           raf_except(Exc("ConnectionError", <<"connection failed">>)), now)]
          /\ UNCHANGED <<upstream, issued>>
       \/ /\ net = "http_error"
          /\ proc' = [proc EXCEPT ![p] =
                 raf_raise([pr EXCEPT !.cause = "upstream"],
                           raf_except(Exc("HTTPError", <<"non-2xx response">>)), now)]
          /\ UNCHANGED <<upstream, issued>>
       \/ /\ net = "ok"
          /\ issued < MaxIssued
          /\ \E l \in Owners(pr.sent) :
                /\ issued' = issued + 1
                /\ upstream' = [upstream EXCEPT ![l] = RefreshTok(issued + 1)]
                /\ \E token_data \in Responses(issued + 1, {None}) :
                      proc' = [proc EXCEPT ![p] = raf_store(pr, token_data, now)]
    /\ UNCHANGED <<users, now>>

\* refresh_token was handed out for a tenant earlier and has been rotated
\* away since
Superseded(refresh_token) ==
    /\ refresh_token \in {refA} \cup {RefreshTok(k) : k \in 1..issued}
    /\ Owners(refresh_token) = {}

\* lines 63-66 against an upstream that still honours a refresh token it
\* has just rotated away (a reuse window): the grant is answered 2xx with
\* another new pair
raf_post_grace(p) ==
    LET pr == [proc[p] EXCEPT !.io = @ \o <<"post">>,
                              !.sent = proc[p].raf_credentials[1].refresh_token]
    IN
    /\ proc[p].pc = "raf_post"
    /\ Superseded(pr.sent)
    /\ issued < MaxIssued
    /\ issued' = issued + 1
    /\ upstream' = [upstream EXCEPT ![pr.location_id] = RefreshTok(issued + 1)]
    /\ \E token_data \in Responses(issued + 1, {None}) :
          proc' = [proc EXCEPT ![p] = raf_store(pr, token_data, now)]
    /\ UNCHANGED <<users, now>>

----------------------------------------------------------------------------
(* ensure_valid_token *)

\* lines 110-113: the call is entered
enter_ensure_valid_token(pr, l) ==
    IF ~Truthy(l)
    THEN evt_raise(pr, ValueError("Missing required parameter: location_id"))
    ELSE [pr EXCEPT !.pc = "evt_get"]

ensure_valid_token(p, l) ==
    /\ proc[p].pc = "idle"
    /\ proc' = [proc EXCEPT ![p] =
           enter_ensure_valid_token(
               [Begin("ensure_valid_token", users) EXCEPT !.location_id = l], l)]
    /\ UNCHANGED <<users, now, upstream, issued>>

\* lines 116-120: load the record
evt_get(p, db) ==
    LET pr  == [proc[p] EXCEPT !.io = @ \o <<"get">>]
        got == get_credentials(users, pr.location_id, db)
    IN
    /\ proc[p].pc = "evt_get"
    /\ proc' = [proc EXCEPT ![p] =
           IF got.exc # NoExc
           THEN evt_raise([pr EXCEPT !.branch = "load_failed"], evt_except(got.exc))
           ELSE IF got.value = <<>>
           THEN evt_raise([pr EXCEPT !.branch = "no_credentials"],
                       evt_except(ValueError("No credentials found for location_id")))
           ELSE [pr EXCEPT !.pc = "evt_check", !.credentials = got.value]]
    /\ UNCHANGED <<users, now, upstream, issued>>

\* slip: the comparison is the wrong way round
is_expired_inverted(current_time, expires_at) == current_time <= expires_at

\* slip: strict comparison, the instant of expiry counts as valid
is_expired_strict(current_time, expires_at) == current_time > expires_at

\* line 127: current_time >= expires_at
is_expired(current_time, expires_at) == current_time >= expires_at

\* lines 122-137: the expiry check against the clock
evt_check(p) ==
    LET pr == [proc[p] EXCEPT !.stale = proc[p].credentials,
                              !.checked_at = now]
        credentials == proc[p].credentials[1]
    IN
    /\ proc[p].pc = "evt_check"
    /\ proc' = [proc EXCEPT ![p] =
           IF TruthyTimestamp(credentials.expires_at)
           THEN IF is_expired(now, fromisoformat(credentials.expires_at))
                THEN enter_refresh_access_token(
                         [pr EXCEPT !.branch = "expired"], pr.location_id, now)
                ELSE evt_return([pr EXCEPT !.branch = "valid"],
                                credentials.access_token, now)
           ELSE evt_return([pr EXCEPT !.branch = "no_expiry"],
                           credentials.access_token, now)]
    /\ UNCHANGED <<users, now, upstream, issued>>

\* lines 130-137: reload after the refresh and return the access token
evt_reload(p, db) ==
    LET pr  == [proc[p] EXCEPT !.io = @ \o <<"get">>]
        got == get_credentials(users, pr.location_id, db)
    IN
    /\ proc[p].pc = "evt_reload"
    /\ proc' = [proc EXCEPT ![p] =
           IF got.exc # NoExc
           THEN evt_raise([pr EXCEPT !.cause = "reload"], evt_except(got.exc))
           ELSE IF got.value = <<>>
           THEN evt_raise([pr EXCEPT !.cause = "vanished"],
                          evt_except(RuntimeError(<<"Failed to retrieve updated credentials after refresh">>)))
           ELSE evt_return([pr EXCEPT !.credentials = got.value],
                           got.value[1].access_token, now)]
    /\ UNCHANGED <<users, now, upstream, issued>>

----------------------------------------------------------------------------
(* get_inventory *)

\* the 'total' list of the count response: absent or empty, or one entry
CountData == {<<>>, <<0>>, <<1>>}

\* lines 64-66
total_items(count_data) == IF Len(count_data) > 0 THEN count_data[1] ELSE 0

\* the dict get_inventory returns, by the number of items it lists
Inventory(n) == [type |-> "dict", val |-> n]

\* an inventory API request leaves with the headers built at lines 43-47;
\* sends remembers the token it carried, when it left, and the record
\* ensure_valid_token took the token from
Sent(pr, request, t) ==
    [pr EXCEPT !.io = @ \o <<request>>,
               !.sends = @ \o <<[request |-> request, token |-> pr.bearer,
                                 at |-> t, record |-> pr.credentials]>>]

\* lines 30-37: validation, then ensure_valid_token inside the try block
get_inventory(p, l) ==
    /\ proc[p].pc = "idle"
    /\ proc' = [proc EXCEPT ![p] =
           LET pr == [Begin("get_inventory", users) EXCEPT !.location_id = l]
           IN  IF ~Truthy(l)
               THEN Raised(pr, ValueError("Missing required parameter: location_id"))
               ELSE enter_ensure_valid_token(
                        [pr EXCEPT !.io = <<"ensure_valid_token">>], l)]
    /\ UNCHANGED <<users, now, upstream, issued>>

\* lines 50-75: the count request (limit 0)
inv_count(p, net, count_data) ==
    LET pr == Sent(proc[p], "count", now) IN
    /\ proc[p].pc = "inv_count"
    /\ proc' = [proc EXCEPT ![p] =
           IF net = "network"
           THEN Raised(pr, inv_except(Exc("ConnectionError", <<"connection failed">>)))
           ELSE IF net = "http_error"
           THEN Raised(pr, inv_except(Exc("HTTPError", <<"non-2xx response">>)))
           ELSE IF total_items(count_data) = 0
           THEN Returned([pr EXCEPT !.count_data = count_data], Inventory(0), now)
           ELSE [pr EXCEPT !.pc = "inv_all", !.count_data = count_data]]
    /\ UNCHANGED <<users, now, upstream, issued>>

\* lines 77-93: the fetch-all request (limit total_items)
inv_all(p, net) ==
    LET pr == Sent(proc[p], "all", now) IN
    /\ proc[p].pc = "inv_all"
    /\ proc' = [proc EXCEPT ![p] =
           IF net = "network"
           THEN Raised(pr, inv_except(Exc("ConnectionError", <<"connection failed">>)))
           ELSE IF net = "http_error"
           THEN Raised(pr, inv_except(Exc("HTTPError", <<"non-2xx response">>)))
           ELSE Returned(pr, Inventory(total_items(pr.count_data)), now)]
    /\ UNCHANGED <<users, now, upstream, issued>>

----------------------------------------------------------------------------
(* check_inventory *)

\* the values 'availableQuantity' takes in a response: null, integers, 0.0
Quantities == {None, PyInt(0), PyInt(1), PyInt(-1), PyFloat(0)}

\* a product of the inventory list: a dict with its '_id' and, present or
\* not (<<>>), its 'availableQuantity'
Product(id, quantity) == [_id |-> id, availableQuantity |-> quantity]

\* the inventory lists of n products
Inventories(n) ==
    {[i \in 1..n |-> Product(i, qs[i])] :
        qs \in [1..n -> {<<>>} \cup {<<q>> : q \in Quantities}]}

\* the arguments: None, or a dict without or with (<<list>>) the key
\* 'inventory' and without or with another key such as 'traceId'
InventoryData ==
    {[type |-> "NoneType", inventory |-> <<>>, traceId |-> <<>>],
     [type |-> "dict", inventory |-> <<>>, traceId |-> <<>>],
     [type |-> "dict", inventory |-> <<>>, traceId |-> <<1>>],
     [type |-> "dict", inventory |-> << <<>> >>, traceId |-> <<1>>]}
    \cup {[type |-> "dict", inventory |-> <<list>>, traceId |-> <<1>>] :
             list \in UNION {Inventories(n) : n \in 1..MaxItems}}

\* bool(inventory_data): None and the empty dict are falsy
TruthyDict(d) ==
    d.type = "dict" /\ (d.inventory # <<>> \/ d.traceId # <<>>)

\* v == n for a number n: None and strings are never equal to it
py_eq(v, n) == v.type \in {"int", "float", "bool"} /\ v.val = n

\* slip: product.get('availableQuantity') without the default
available_quantity_no_default(product) ==
    IF product.availableQuantity = <<>> THEN None
    ELSE product.availableQuantity[1]

\* line 47: product.get('availableQuantity', 0)
available_quantity(product) ==
    IF product.availableQuantity = <<>> THEN PyInt(0)
    ELSE product.availableQuantity[1]

\* lines 46-58: the loop over the products from the i-th on
RECURSIVE scan_inventory(_, _, _, _)
scan_inventory(inventory_list, i, out_of_stock_products, in_stock_count) ==
    IF i > Len(inventory_list)
    THEN [out_of_stock_products |-> out_of_stock_products,
          in_stock_count |-> in_stock_count]
    ELSE IF py_eq(available_quantity(inventory_list[i]), 0)
    THEN scan_inventory(inventory_list, i + 1,
             Append(out_of_stock_products,
                    [variant_id |-> inventory_list[i]._id,
                     available_quantity |-> available_quantity(inventory_list[i])]),
             in_stock_count)
    ELSE scan_inventory(inventory_list, i + 1, out_of_stock_products,
                        in_stock_count + 1)

\* lines 27-73: the dict returned for a valid argument; summary holds the
\* three numbers of its text (none for 'No inventory items found')
analyse_inventory(inventory_data) ==
    LET inventory_list == IF inventory_data.inventory = <<>> THEN <<>>
                          ELSE inventory_data.inventory[1]
        scanned == scan_inventory(inventory_list, 1, <<>>, 0)
    IN  IF Len(inventory_list) = 0
        THEN [total_products |-> 0, out_of_stock_products |-> <<>>,
              out_of_stock_count |-> 0, in_stock_count |-> 0,
              summary |-> <<>>]
        ELSE [total_products |-> Len(inventory_list),
              out_of_stock_products |-> scanned.out_of_stock_products,
              out_of_stock_count |-> Len(scanned.out_of_stock_products),
              in_stock_count |-> scanned.in_stock_count,
              summary |-> <<Len(inventory_list), scanned.in_stock_count,
                            Len(scanned.out_of_stock_products)>>]

\* lines 20-73
check_inventory(p, inventory_data) ==
    /\ proc[p].pc = "idle"
    /\ proc' = [proc EXCEPT ![p] =
           LET pr == [Begin("check_inventory", users) EXCEPT
                          !.inventory_data = <<inventory_data>>]
           IN  IF ~TruthyDict(inventory_data)
               THEN Raised(pr, ValueError("Invalid inventory data provided"))
               ELSE Returned([pr EXCEPT !.analysis =
                                 <<analyse_inventory(inventory_data)>>],
                             Inventory(Len(IF inventory_data.inventory = <<>>
                                           THEN <<>>
                                           ELSE inventory_data.inventory[1])),
                             now)]
    /\ UNCHANGED <<users, now, upstream, issued>>

----------------------------------------------------------------------------
(* authenticate: the OAuth callback *)

\* lines 346-358: the callback arrives with or without a code
authenticate(p, auth_code) ==
    /\ proc[p].pc = "idle"
    /\ proc' = [proc EXCEPT ![p] =
           LET pr == Begin("authenticate", users)
           IN  IF ~Truthy(auth_code)
               THEN Returned(pr, PyInt(400), now)
               ELSE [pr EXCEPT !.pc = "auth_post"]]
    /\ UNCHANGED <<users, now, upstream, issued>>

\* slip: a response without locationId is stored under a default tenant
auth_store_default_location(pr, token_data, t) ==
    LET fr == [pr EXCEPT !.token_data = <<token_data>>] IN
    IF ~all(<<token_data.access_token, token_data.refresh_token,
              token_data.expires_in>>)
    THEN Returned(fr, PyInt(500), t)
    ELSE enter_store_credentials(fr, IF Truthy(token_data.locationId)
                                     THEN token_data.locationId ELSE loc1,
                                 token_data.access_token,
                                 token_data.refresh_token,
                                 token_data.expires_in, t)

\* lines 401-415: the response body is unpacked and, when complete, stored
auth_store(pr, token_data, t) ==
    LET fr == [pr EXCEPT !.token_data = <<token_data>>] IN
    IF ~all(<<token_data.access_token, token_data.refresh_token,
              token_data.expires_in, token_data.locationId>>)
    THEN Returned(fr, PyInt(500), t)
    ELSE enter_store_credentials(fr, token_data.locationId,
                                 token_data.access_token,
                                 token_data.refresh_token,
                                 token_data.expires_in, t)

\* lines 380-396: the authorization-code grant is posted
auth_post(p, net) ==
    LET pr == [proc[p] EXCEPT !.io = @ \o <<"post">>] IN
    /\ proc[p].pc = "auth_post"
    /\ \/ /\ net = "network"
          /\ proc' = [proc EXCEPT ![p] =
                 Returned([pr EXCEPT !.exc = Exc("ConnectionError", <<"connection failed">>)],
                          PyInt(auth_except(Exc("ConnectionError", <<"connection failed">>))), now)]
          /\ UNCHANGED <<upstream, issued>>
       \/ /\ net = "http_error"
          /\ proc' = [proc EXCEPT ![p] =
                 Returned([pr EXCEPT !.exc = Exc("HTTPError", <<"non-2xx response">>)],
                          PyInt(auth_except(Exc("HTTPError", <<"non-2xx response">>))), now)]
          /\ UNCHANGED <<upstream, issued>>
       \/ /\ net = "ok"
          /\ issued < MaxIssued
          /\ \E l \in Locations :
                /\ issued' = issued + 1
                /\ upstream' = [upstream EXCEPT ![l] = RefreshTok(issued + 1)]
                /\ \E token_data \in Responses(issued + 1, {l, None}) :
                      proc' = [proc EXCEPT ![p] = auth_store(pr, token_data, now)]
    /\ UNCHANGED <<users, now>>

----------------------------------------------------------------------------
(* Environment *)

\* the clock advances
Tick ==
    /\ now < MaxTime
    /\ now' = now + 1
    /\ UNCHANGED <<users, upstream, issued, proc>>

\* the caller has taken the outcome of its call
Complete(p) ==
    /\ proc[p].pc = "done"
    /\ proc' = [proc EXCEPT ![p] = Idle]
    /\ UNCHANGED <<users, now, upstream, issued>>

NetOutcomes == {"network", "http_error", "ok"}
AuthCodes == {None, PyStr(1)}

Step(p) ==
    \/ \E l \in LocationInputs, a \in TokenInputsA, r \in TokenInputsR,
          e \in ExpiresInValues : store_credentials(p, l, a, r, e)
    \/ store_credentials_again(p)
    \/ \E db \in DbOutcomes : sc_execute(p, db)
    \/ \E db \in DbOutcomes : sc_commit(p, db)
    \/ \E l \in LocationInputs, db \in DbOutcomes : get_credentials_call(p, l, db)
    \/ \E l \in LocationInputs : refresh_access_token(p, l)
    \/ \E db \in DbOutcomes : raf_get(p, db)
    \/ \E net \in NetOutcomes : raf_post(p, net)
    \/ \E l \in LocationInputs : ensure_valid_token(p, l)
    \/ \E db \in DbOutcomes : evt_get(p, db)
    \/ evt_check(p)
    \/ \E db \in DbOutcomes : evt_reload(p, db)
    \/ \E c \in AuthCodes : authenticate(p, c)
    \/ \E net \in NetOutcomes : auth_post(p, net)
    \/ \E l \in LocationInputs : get_inventory(p, l)
    \/ \E net \in NetOutcomes, count_data \in CountData : inv_count(p, net, count_data)
    \/ \E net \in NetOutcomes : inv_all(p, net)
    \/ Complete(p)

Next == Tick \/ \E p \in Callers : Step(p)

Spec == Init /\ [][Next]_vars

\* Spec with a caller whose call, once started, keeps running: every
\* database call and every HTTP request of it comes back, with a result or
\* with an error
SpecLive == Spec /\ \A p \in Callers : WF_vars(Step(p))

\* Two request threads ask for the token of the same tenant.  The start is
\* the state Spec reaches by authenticate (first pair, expires_in 1) and one
\* Tick: the tenant's record has just expired.
InitConc ==
    /\ users = {Row(loc1, AccessTok(1), RefreshTok(1), adapt_datetime(1))}
    /\ now = 1
    /\ upstream = [l \in {loc1} |-> RefreshTok(1)]
    /\ issued = 1
    /\ proc = [p \in AllCallers |-> Idle]

StepConc(p) ==
    \/ ensure_valid_token(p, loc1)
    \/ \E db \in DbOutcomes : evt_get(p, db)
    \/ evt_check(p)
    \/ \E db \in DbOutcomes : raf_get(p, db)
    \/ \E net \in NetOutcomes : raf_post(p, net)
    \/ \E db \in DbOutcomes : sc_execute(p, db)
    \/ \E db \in DbOutcomes : sc_commit(p, db)
    \/ \E db \in DbOutcomes : evt_reload(p, db)
    \/ Complete(p)

NextConc == Tick \/ \E p \in AllCallers : StepConc(p)

SpecConc == InitConc /\ [][NextConc]_vars

\* One caller refreshes the token of the same tenant again and again, each
\* call after the previous one has ended.  The start is the state Spec
\* reaches by a successful authenticate (first pair) and one Tick.
InitRetry ==
    /\ users = {Row(loc1, AccessTok(1), RefreshTok(1), adapt_datetime(1))}
    /\ now = 1
    /\ upstream = [l \in {loc1} |-> RefreshTok(1)]
    /\ issued = 1
    /\ proc = [p \in AllCallers |-> Idle]

StepRetry(p) ==
    \/ refresh_access_token(p, loc1)
    \/ \E db \in DbOutcomes : raf_get(p, db)
    \/ \E net \in NetOutcomes : raf_post(p, net)
    \/ \E db \in DbOutcomes : sc_execute(p, db)
    \/ \E db \in DbOutcomes : sc_commit(p, db)
    \/ Complete(p)

NextRetry == Tick \/ \E p \in Callers : StepRetry(p)

SpecRetry == InitRetry /\ [][NextRetry]_vars

\* Two request threads ask for the token of the same tenant, whose record
\* (the pair tokA/refA, handed out before the program started) has just
\* expired, against an upstream with a reuse window for rotated refresh
\* tokens.  Each thread makes one call.
InitGrace ==
    /\ users = {Row(loc1, tokA, refA, adapt_datetime(1))}
    /\ now = 1
    /\ upstream = [l \in {loc1} |-> refA]
    /\ issued = 0
    /\ proc = [p \in AllCallers |-> Idle]

StepGrace(p) ==
    \/ ensure_valid_token(p, loc1)
    \/ \E db \in DbOutcomes : evt_get(p, db)
    \/ evt_check(p)
    \/ \E db \in DbOutcomes : raf_get(p, db)
    \/ \E net \in NetOutcomes : raf_post(p, net)
    \/ raf_post_grace(p)
    \/ \E db \in DbOutcomes : sc_execute(p, db)
    \/ \E db \in DbOutcomes : sc_commit(p, db)
    \/ \E db \in DbOutcomes : evt_reload(p, db)

NextGrace == Tick \/ \E p \in AllCallers : StepGrace(p)

SpecGrace == InitGrace /\ [][NextGrace]_vars

\* Two threads write and read the record of the same tenant at the same
\* time.  Write n stores the n-th pair with a lifetime of n, so that the
\* write a field came from can be told from its value.
InitRW ==
    /\ users = {}
    /\ now = 0
    /\ upstream = [l \in {loc1} |-> None]
    /\ issued = 0
    /\ proc = [p \in AllCallers |-> Idle]

StepRW(p) ==
    \/ \E n \in 1..MaxIssued :
          store_credentials(p, loc1, AccessTok(n), RefreshTok(n), PyInt(n))
    \/ \E db \in DbOutcomes : sc_execute(p, db)
    \/ \E db \in DbOutcomes : sc_commit(p, db)
    \/ \E db \in DbOutcomes : get_credentials_call(p, loc1, db)
    \/ Complete(p)

NextRW == Tick \/ \E p \in AllCallers : StepRW(p)

SpecRW == InitRW /\ [][NextRW]_vars

\* Two tenants, each with a record of its own that expires at time 1; one
\* caller stores, refreshes and asks for the token of either.
InitTwo ==
    /\ users = {Row(loc1, AccessTok(1), RefreshTok(1), adapt_datetime(1)),
                Row(loc2, tokA, refA, adapt_datetime(1))}
    /\ now = 0
    /\ upstream = [l \in {loc1, loc2} |->
                      IF l = loc1 THEN RefreshTok(1) ELSE refA]
    /\ issued = 1
    /\ proc = [p \in AllCallers |-> Idle]

StepTwo(p) ==
    \/ \E l \in Locations : store_credentials(p, l, tokA, refA, PyInt(1))
    \/ \E db \in DbOutcomes : sc_execute(p, db)
    \/ \E db \in DbOutcomes : sc_commit(p, db)
    \/ \E l \in Locations : refresh_access_token(p, l)
    \/ \E db \in DbOutcomes : raf_get(p, db)
    \/ \E net \in NetOutcomes : raf_post(p, net)
    \/ \E l \in Locations : ensure_valid_token(p, l)
    \/ \E db \in DbOutcomes : evt_get(p, db)
    \/ evt_check(p)
    \/ \E db \in DbOutcomes : evt_reload(p, db)
    \/ Complete(p)

NextTwo == Tick \/ \E p \in Callers : StepTwo(p)

SpecTwo == InitTwo /\ [][NextTwo]_vars

\* The analysis of inventory responses: a pure function, applied to every
\* argument of InventoryData.
StepAnalysis(p) ==
    \/ \E inventory_data \in InventoryData : check_inventory(p, inventory_data)
    \/ Complete(p)

NextAnalysis == \E p \in Callers : StepAnalysis(p)

SpecAnalysis == Init /\ [][NextAnalysis]_vars

----------------------------------------------------------------------------
TypeOK ==
    /\ now \in 0..MaxTime
    /\ issued \in 0..MaxIssued

----------------------------------------------------------------------------
(* Vocabulary of the properties *)

Finished(p, op) == proc[p].pc = "done" /\ proc[p].op = op

Count(io, ev) == Cardinality({i \in 1..Len(io) : io[i] = ev})

\* ensure_valid_token compared the loaded record's expiry with the clock
Checked(pr) == pr.stale # <<>>
CheckedValid(pr) ==
    Checked(pr) /\ pr.checked_at < fromisoformat(pr.stale[1].expires_at)
CheckedExpired(pr) ==
    Checked(pr) /\ pr.checked_at >= fromisoformat(pr.stale[1].expires_at)

\* every store read of the call succeeded
ReadsOk(pr) == pr.branch # "load_failed" /\ pr.cause \notin {"load", "reload"}

\* refresh_access_token failed, and why
RefreshFailures ==
    {"load", "missing", "network", "upstream", "incomplete", "validation",
     "storage"}
RefreshFailed(pr) == pr.cause \in RefreshFailures

----------------------------------------------------------------------------
(* C1: when the tenant has no record (and the store can be read),          *)
(* ensure_valid_token raises ValueError, the missing-credentials error,    *)
(* sends no request to the token endpoint and leaves the table as it was.  *)
C1_NoRecordRaisesValueError ==
    \A p \in Callers :
        LET pr == proc[p] IN
        (/\ Finished(p, "ensure_valid_token")
         /\ Truthy(pr.location_id)
         /\ Select(pr.pre, pr.location_id) = {}
         /\ ReadsOk(pr))
        => /\ pr.outcome = "raised"
           /\ pr.exc.kind = "ValueError"
           /\ Count(pr.io, "post") = 0
           /\ Count(pr.io, "store_credentials") = 0
           /\ users = pr.pre

C1_Witness ==
    \E p \in Callers :
        /\ Finished(p, "ensure_valid_token")
        /\ Truthy(proc[p].location_id)
        /\ Select(proc[p].pre, proc[p].location_id) = {}
        /\ ReadsOk(proc[p])
        /\ proc[p].outcome = "raised"

(* C2: when the check finds now < expires_at, ensure_valid_token returns   *)
(* exactly the stored access token, sends no request to the token endpoint *)
(* and leaves the stored record unchanged.                                 *)
C2_ValidTokenReturnedUntouched ==
    \A p \in Callers :
        LET pr == proc[p] IN
        (Finished(p, "ensure_valid_token") /\ CheckedValid(pr))
        => /\ pr.outcome = "returned"
           /\ Select(pr.pre, pr.location_id) = {pr.stale[1]}
           /\ pr.result = pr.stale[1].access_token
           /\ Count(pr.io, "post") = 0
           /\ Count(pr.io, "store_credentials") = 0
           /\ users = pr.pre

C2_Witness ==
    \E p \in Callers :
        /\ Finished(p, "ensure_valid_token")
        /\ CheckedValid(proc[p])
        /\ proc[p].outcome = "returned"
        /\ Truthy(proc[p].result)

(* C3: when the check finds now >= expires_at (equality included) and the  *)
(* store can be read, one ensure_valid_token call invokes                  *)
(* refresh_access_token once and sends exactly one exchange request; when  *)
(* the exchange and the store write succeed it returns the access token of *)
(* that response, which is not the one stored before.                      *)
C3_ExpiredRefreshesOnce ==
    \A p \in Callers :
        LET pr == proc[p] IN
        (Finished(p, "ensure_valid_token") /\ CheckedExpired(pr) /\ ReadsOk(pr))
        => /\ Count(pr.io, "refresh_access_token") = 1
           /\ Count(pr.io, "post") = 1
           /\ Count(pr.io, "commit") = 1
              => /\ pr.outcome = "returned"
                 /\ pr.result = pr.token_data[1].access_token
                 /\ pr.result # pr.stale[1].access_token

C3_Witness ==
    \E p \in Callers :
        /\ Finished(p, "ensure_valid_token")
        /\ proc[p].stale # <<>>
        /\ proc[p].checked_at = fromisoformat(proc[p].stale[1].expires_at)
        /\ Count(proc[p].io, "commit") = 1
        /\ proc[p].outcome = "returned"

(* C4: when the stored token is expired and the refresh fails (request     *)
(* cannot complete, non-2xx, incomplete response, store write fails, ...)  *)
(* ensure_valid_token ends in an error and returns no token at all.        *)
C4_FailedRefreshIsAnError ==
    \A p \in Callers :
        LET pr == proc[p] IN
        (/\ pr.op = "ensure_valid_token"
         /\ CheckedExpired(pr)
         /\ RefreshFailed(pr))
        => /\ pr.pc = "done"
           /\ pr.outcome = "raised"
           /\ pr.result = None

C4_Witness ==
    \E p \in Callers :
        /\ Finished(p, "ensure_valid_token")
        /\ CheckedExpired(proc[p])
        /\ proc[p].cause = "storage"
        /\ proc[p].outcome = "raised"

(* C5: every access token ensure_valid_token returns is valid when it is   *)
(* returned: it is the access token of a record of that tenant whose       *)
(* expires_at is strictly later than the clock at the return.              *)
C5_ReturnedTokenIsValid ==
    \A p \in Callers :
        LET pr == proc[p] IN
        (Finished(p, "ensure_valid_token") /\ pr.outcome = "returned")
        => /\ pr.credentials # <<>>
           /\ pr.credentials[1].location_id = pr.location_id
           /\ pr.result = pr.credentials[1].access_token
           /\ fromisoformat(pr.credentials[1].expires_at) > pr.returned_at

\* the response of the refresh exchange lacks one of the three fields
ResponseLacksField(pr) ==
    /\ pr.token_data # <<>>
    /\ \/ pr.token_data[1].access_token = None
       \/ pr.token_data[1].refresh_token = None
       \/ pr.token_data[1].expires_in = None

(* C6: when the refresh response lacks access_token, refresh_token or      *)
(* expires_in, refresh_access_token (alone or under ensure_valid_token)    *)
(* fails, store_credentials is never invoked and the table is the one from *)
(* before the call.                                                        *)
C6_IncompleteResponseLeavesStore ==
    \A p \in Callers :
        LET pr == proc[p] IN
        (/\ pr.op \in {"refresh_access_token", "ensure_valid_token"}
         /\ ResponseLacksField(pr))
        => /\ pr.pc = "done"
           /\ pr.outcome = "raised"
           /\ Count(pr.io, "store_credentials") = 0
           /\ Count(pr.io, "commit") = 0
           /\ users = pr.pre

C6_Witness ==
    \E p \in Callers :
        /\ Finished(p, "ensure_valid_token")
        /\ proc[p].token_data # <<>>
        /\ proc[p].token_data[1].refresh_token = None
        /\ Truthy(proc[p].token_data[1].access_token)
        /\ Truthy(proc[p].token_data[1].expires_in)
        /\ proc[p].pre # {}
        /\ proc[p].outcome = "raised"

\* refresh_access_token has returned True in the call that p is running
RefreshSucceeded(pr) ==
    \/ pr.op = "refresh_access_token" /\ pr.pc = "done" /\ pr.outcome = "returned"
    \/ pr.op = "ensure_valid_token" /\ pr.pc \in {"evt_reload", "done"}
                                    /\ Count(pr.io, "commit") = 1

(* C7: after a successful refresh_access_token(L) the one record of L      *)
(* holds the access token and the refresh token of the response and the    *)
(* expiry store time + expires_in of the response; the refresh token that  *)
(* was stored before is nowhere in the table.                              *)
C7_RefreshReplacesRecord ==
    \A p \in Callers :
        LET pr == proc[p] IN
        RefreshSucceeded(pr)
        => /\ Select(users, pr.location_id) =
                {Row(pr.location_id,
                     pr.token_data[1].access_token,
                     pr.token_data[1].refresh_token,
                     adapt_datetime(pr.stored_at + pr.token_data[1].expires_in.val))}
           /\ \A r \in users :
                 r.refresh_token # pr.raf_credentials[1].refresh_token

C7_Witness ==
    \E p \in Callers :
        /\ Finished(p, "refresh_access_token")
        /\ proc[p].outcome = "returned"
        /\ proc[p].pre # users
        /\ Cardinality(users) = 1

(* C8: refresh_access_token(L) for a tenant with no record, or a record    *)
(* whose refresh_token is empty, fails with ValueError (the kind           *)
(* ensure_valid_token raises for an absent record) and sends no request.   *)
C8_RefreshWithoutRecordRaisesValueError ==
    \A p \in Callers :
        LET pr == proc[p] IN
        (/\ Finished(p, "refresh_access_token")
         /\ Truthy(pr.location_id)
         /\ ReadsOk(pr)
         /\ \A r \in Select(pr.pre, pr.location_id) : ~Truthy(r.refresh_token))
        => /\ pr.outcome = "raised"
           /\ pr.exc.kind = "ValueError"
           /\ Count(pr.io, "post") = 0

\* expires_in is a positive integer
IsPositiveInteger(v) == v.type = "int" /\ v.val > 0

(* C10: store_credentials rejects with ValueError every expires_in that is *)
(* not a positive integer (zero, negative, missing, not an integer) and    *)
(* the table is unchanged by the rejected call.                            *)
C10_NonPositiveExpiresInRejected ==
    \A p \in Callers :
        LET pr == proc[p] IN
        (/\ pr.op = "store_credentials"
         /\ ~IsPositiveInteger(pr.expires_in))
        => /\ pr.pc = "done"
           /\ pr.outcome = "raised"
           /\ pr.exc.kind = "ValueError"
           /\ users = pr.pre

\* the cause a caller can read off the message of the error it received
CauseOfMessage(msg) ==
    IF Len(msg) < 3 THEN ""
    ELSE IF msg[2] = "Failed to retrieve credentials"
    THEN IF msg[3] = "No refresh token found for location_id"
         THEN "missing" ELSE "load"
    ELSE IF msg[2] = "Failed to refresh token"
    THEN IF msg[3] = "connection failed" THEN "network" ELSE "upstream"
    ELSE IF msg[2] = "Unexpected error during token refresh"
    THEN IF msg[3] = "Incomplete token response from refresh request"
         THEN "incomplete"
         ELSE IF msg[3] \in {"Failed to establish database connection",
                             "Database error while storing credentials"}
         THEN "storage" ELSE "validation"
    ELSE ""

\* ensure_valid_token has failed because its refresh failed
FailedInRefresh(p) ==
    Finished(p, "ensure_valid_token") /\ RefreshFailed(proc[p])

----------------------------------------------------------------------------
\* store_credentials has been entered in the call p is running
StoreEntered(pr) == Count(pr.io, "store_credentials") > 0

\* one of location_id, access_token, refresh_token is empty or missing
LacksRequiredField(pr) ==
    ~Truthy(pr.location_id) \/ ~Truthy(pr.access_token) \/ ~Truthy(pr.refresh_token)

(* C11: store_credentials called with an empty or missing location_id,     *)
(* access_token or refresh_token fails with ValueError before the database *)
(* is touched, and the table is unchanged.                                 *)
C11_MissingFieldRejectedBeforeDatabase ==
    \A p \in Callers :
        LET pr == proc[p] IN
        (pr.op = "store_credentials" /\ LacksRequiredField(pr))
        => /\ pr.pc = "done"
           /\ pr.outcome = "raised"
           /\ pr.exc.kind = "ValueError"
           /\ pr.txn = <<>>
           /\ Count(pr.io, "commit") = 0
           /\ users = pr.pre

C11_Witness ==
    \E p \in Callers :
        /\ Finished(p, "store_credentials")
        /\ proc[p].location_id = loc1
        /\ proc[p].access_token = tokA
        /\ proc[p].refresh_token = PyStr(0)
        /\ proc[p].expires_in = PyInt(1)
        /\ proc[p].outcome = "raised"

\* the row a successful store_credentials call of p has written
WrittenRow(pr) ==
    Row(pr.location_id, pr.access_token, pr.refresh_token,
        adapt_datetime(pr.expires_at))

(* C12: the table holds at most one record per location_id, and a          *)
(* store_credentials for a tenant that already has a record replaces the   *)
(* access token, the refresh token and expires_at of the old record.       *)
C12_OneRecordPerLocation ==
    /\ \A r1 \in users, r2 \in users :
          r1.location_id = r2.location_id => r1 = r2
    /\ \A p \in Callers :
          LET pr == proc[p] IN
          (/\ Finished(p, "store_credentials")
           /\ pr.outcome = "returned"
           /\ Select(pr.pre, pr.location_id) # {})
          => Select(users, pr.location_id) = {WrittenRow(pr)}

C12_Witness ==
    \E p \in Callers :
        /\ Finished(p, "store_credentials")
        /\ proc[p].outcome = "returned"
        /\ \E old \in Select(proc[p].pre, proc[p].location_id) :
              /\ old.access_token # proc[p].access_token
              /\ old.refresh_token # proc[p].refresh_token
              /\ old.expires_at # adapt_datetime(proc[p].expires_at)

(* C13: round trip: after store_credentials(L, A, R, E), with no write in  *)
(* between, get_credentials(L) yields a record with access_token A,        *)
(* refresh_token R and expires_at = the clock store_credentials read + E.  *)
C13_StoreThenGetRoundTrip ==
    \A p \in Callers :
        LET pr == proc[p]
            got == get_credentials(users, pr.location_id, "ok")
        IN
        (Finished(p, "store_credentials") /\ pr.outcome = "returned")
        => /\ got.exc = NoExc
           /\ got.value # <<>>
           /\ got.value[1].access_token = pr.access_token
           /\ got.value[1].refresh_token = pr.refresh_token
           /\ fromisoformat(got.value[1].expires_at) = pr.stored_at + pr.expires_in.val

C13_Witness ==
    \E p \in Callers :
        /\ Finished(p, "store_credentials")
        /\ proc[p].outcome = "returned"
        /\ proc[p].expires_in = PyInt(1)
        /\ proc[p].stored_at = 1
        /\ now = 2


(* C15: get_credentials(L) never changes the table; with an empty L it     *)
(* raises ValueError; when the read succeeds it returns None if L has no   *)
(* record, and otherwise the stored record with its expires_at as stored,  *)
(* even when the record has expired.                                       *)
C15_GetCredentialsIsAPureRead ==
    \A p \in Callers :
        LET pr == proc[p] IN
        Finished(p, "get_credentials")
        => /\ users = pr.pre
           /\ ~Truthy(pr.location_id)
                 => pr.outcome = "raised" /\ pr.exc.kind = "ValueError"
           /\ (Truthy(pr.location_id) /\ ReadsOk(pr))
                 => /\ pr.outcome = "returned"
                    /\ Select(pr.pre, pr.location_id) = {}
                          => pr.credentials = <<>>
                    /\ \A r \in Select(pr.pre, pr.location_id) :
                          pr.credentials = <<r>>

C15_Witness ==
    \E p \in Callers :
        /\ Finished(p, "get_credentials")
        /\ proc[p].outcome = "returned"
        /\ proc[p].credentials # <<>>
        /\ proc[p].credentials[1] \in users
        /\ now >= fromisoformat(proc[p].credentials[1].expires_at)

\* the arguments of the store_credentials call pass its validation
StoreArgsValid(pr) ==
    validate_store_credentials(pr.location_id, pr.access_token,
                               pr.refresh_token, pr.expires_in) = NoExc

(* C16: a store_credentials call whose database write fails raises         *)
(* RuntimeError and leaves the table as it was before the call; a call     *)
(* that returns has replaced the whole record: nothing in between.         *)
C16_StoreIsAtomic ==
    \A p \in Callers :
        LET pr == proc[p] IN
        (pr.op = "store_credentials" /\ StoreArgsValid(pr))
        => \/ /\ pr.pc # "done"
              /\ users = pr.pre
           \/ /\ pr.pc = "done"
              /\ pr.outcome = "raised"
              /\ pr.exc.kind = "RuntimeError"
              /\ users = pr.pre
           \/ /\ pr.pc = "done"
              /\ pr.outcome = "returned"
              /\ users = InsertOrReplace(pr.pre, WrittenRow(pr))

C16_Witness ==
    \E p \in Callers :
        /\ Finished(p, "store_credentials")
        /\ StoreArgsValid(proc[p])
        /\ proc[p].outcome = "raised"
        /\ proc[p].exc.kind = "RuntimeError"
        /\ Select(proc[p].pre, proc[p].location_id) # {}
        /\ WrittenRow(proc[p]) \notin users


\* the code exchange of the callback returned a 2xx response holding
\* access_token, refresh_token, expires_in and locationId
ExchangeComplete(pr) ==
    /\ pr.token_data # <<>>
    /\ all(<<pr.token_data[1].access_token, pr.token_data[1].refresh_token,
             pr.token_data[1].expires_in, pr.token_data[1].locationId>>)

(* C20: the OAuth callback writes a record only when the code exchange     *)
(* returned a 2xx response holding access_token, refresh_token, expires_in *)
(* and locationId; in every other outcome (no code, request failure,       *)
(* non-2xx, a field missing) the table is unchanged and the response is a  *)
(* failure; success is reported only when the record was written.          *)
C20_CallbackWritesOnlyCompleteExchange ==
    \A p \in Callers :
        LET pr == proc[p] IN
        pr.op = "authenticate"
        => /\ (users # pr.pre \/ pr.txn # <<>>) => ExchangeComplete(pr)
           /\ (pr.pc = "done" /\ ~ExchangeComplete(pr))
                 => /\ users = pr.pre
                    /\ pr.result \in {PyInt(400), PyInt(500)}
           /\ (pr.pc = "done" /\ pr.result = PyInt(200))
                 => /\ ExchangeComplete(pr)
                    /\ users = InsertOrReplace(pr.pre, WrittenRow(pr))
                    /\ pr.location_id = pr.token_data[1].locationId

C20_Witness ==
    \E p \in Callers :
        /\ Finished(p, "authenticate")
        /\ proc[p].result = PyInt(200)
        /\ users # proc[p].pre
        /\ ExchangeComplete(proc[p])


\* the second of two store_credentials calls with the same arguments has
\* returned
StoredTwice(pr) ==
    /\ pr.op = "store_credentials"
    /\ pr.pc = "done"
    /\ pr.outcome = "returned"
    /\ pr.first # <<>>

(* C14 as stated: calling store_credentials twice in a row with the same   *)
(* (L, A, R, E) leaves get_credentials(L), expires_at included, as it was  *)
(* after the first call.                                                   *)
C14_StoreTwiceSameRecord ==
    \A p \in Callers :
        StoredTwice(proc[p])
        => get_credentials(users, proc[p].location_id, "ok").value
              = proc[p].first[1].value

(* C14 amended: after the second call get_credentials(L) gives the record  *)
(* of the first call with the same access and refresh token (A and R) and  *)
(* no other record is added, but expires_at is recomputed from the clock   *)
(* the second call read: it is later by the time that passed between the   *)
(* two calls.                                                              *)
C14_StoreTwiceSameTokensLaterExpiry ==
    \A p \in Callers :
        LET pr == proc[p]
            got == get_credentials(users, pr.location_id, "ok").value
        IN
        StoredTwice(pr)
        => /\ got # <<>>
           /\ pr.first[1].value # <<>>
           /\ got[1].location_id = pr.first[1].value[1].location_id
           /\ got[1].access_token = pr.access_token
           /\ got[1].refresh_token = pr.refresh_token
           /\ got[1].access_token = pr.first[1].value[1].access_token
           /\ got[1].refresh_token = pr.first[1].value[1].refresh_token
           /\ fromisoformat(got[1].expires_at)
                 - fromisoformat(pr.first[1].value[1].expires_at)
              = pr.stored_at - pr.first[1].stored_at
           /\ users = (pr.pre \ {pr.first[1].value[1]}) \cup {got[1]}

C14_Witness ==
    \E p \in Callers :
        /\ StoredTwice(proc[p])
        /\ proc[p].stored_at > proc[p].first[1].stored_at


\* the upstream endpoint accepts refresh_token for tenant l
Accepts(l, refresh_token) == upstream[l] = refresh_token

(* C17: refresh_access_token is safe to retry against an upstream that     *)
(* rotates the refresh token on every use: whatever happened to earlier    *)
(* calls, between calls the stored refresh token is one upstream accepts,  *)
(* and a later call that has loaded the record posts a token upstream      *)
(* accepts.                                                                *)
C17_RetriedRefreshIsAccepted ==
    \A p \in Callers :
        LET pr == proc[p] IN
        /\ pr.pc \in {"idle", "done"}
              => \A r \in users : Accepts(r.location_id, r.refresh_token)
        /\ pr.pc = "raf_post"
              => Accepts(pr.location_id, pr.raf_credentials[1].refresh_token)


\* the positions in io of the inventory API requests
RequestPositions(io) == {i \in 1..Len(io) : io[i] \in {"count", "all"}}

(* C18: every inventory API request get_inventory sends, the count request *)
(* and the fetch-all request alike, carries an access token that is valid  *)
(* when the request is sent: the expires_at of its record is later than    *)
(* the send time.                                                          *)
C18_RequestsCarryValidToken ==
    \A p \in Callers :
        \A i \in 1..Len(proc[p].sends) :
            LET send == proc[p].sends[i] IN
            /\ send.record # <<>>
            /\ send.token = send.record[1].access_token
            /\ fromisoformat(send.record[1].expires_at) > send.at

(* C19: get_inventory calls ensure_valid_token before any inventory API    *)
(* request, the token in every request is the one ensure_valid_token       *)
(* returned, and when ensure_valid_token fails no request is sent and      *)
(* get_inventory raises RuntimeError.                                      *)
C19_TokenOnlyThroughEnsureValidToken ==
    \A p \in Callers :
        LET pr == proc[p] IN
        pr.op = "get_inventory"
        => /\ \A i \in RequestPositions(pr.io) :
                 \E j \in 1..(i - 1) : pr.io[j] = "ensure_valid_token"
           /\ Count(pr.io, "ensure_valid_token") <= 1
           /\ Len(pr.sends) = Cardinality(RequestPositions(pr.io))
           /\ \A i \in 1..Len(pr.sends) :
                 /\ pr.evt_result # <<>>
                 /\ pr.sends[i].token = pr.evt_result[1]
           /\ pr.evt_exc # NoExc
                 => /\ pr.sends = <<>>
                    /\ pr.pc = "done"
                    /\ pr.outcome = "raised"
                    /\ pr.exc.kind = "RuntimeError"
                    /\ pr.exc.msg[1] = "Unexpected error getting inventory"

C19_Witness ==
    \E p \in Callers :
        /\ Finished(p, "get_inventory")
        /\ proc[p].evt_exc # NoExc
        /\ RefreshFailed(proc[p])
        /\ Count(proc[p].io, "post") = 1


----------------------------------------------------------------------------
\* the store_credentials of the call has committed
Committed(pr) == Count(pr.io, "commit") = 1

\* two ensure_valid_token calls have each had a refresh exchange answered
\* 2xx for the same stored refresh token
BothExchanged(p, q) ==
    /\ p # q
    /\ proc[p].op = "ensure_valid_token" /\ proc[q].op = "ensure_valid_token"
    /\ proc[p].token_data # <<>> /\ proc[q].token_data # <<>>
    /\ proc[p].sent = proc[q].sent

(* C21: no per-tenant mutual exclusion: when two concurrent                *)
(* ensure_valid_token calls for the same expired tenant have both had      *)
(* their exchange for the same stored refresh token answered, neither      *)
(* write is held back (each call whose response is complete and valid and  *)
(* whose database works commits its new pair), and the record left is the  *)
(* one of the commit that happened last.                                   *)
C21_BothRefreshLastCommitWins ==
    \A p \in AllCallers, q \in AllCallers :
        BothExchanged(p, q)
        => /\ (/\ proc[p].pc = "done"
               /\ proc[p].cause \notin {"incomplete", "validation", "storage"})
                 => Committed(proc[p])
           /\ (Committed(proc[p]) /\ Committed(proc[q]))
                 => /\ users \in {{WrittenRow(proc[p])}, {WrittenRow(proc[q])}}
                    /\ WrittenRow(proc[q]) \in proc[p].overwrote[1]
                          => users = {WrittenRow(proc[p])}

C21_Witness ==
    \E p \in AllCallers, q \in AllCallers :
        /\ BothExchanged(p, q)
        /\ proc[p].stale = proc[q].stale
        /\ Count(proc[p].io, "post") = 1 /\ Count(proc[q].io, "post") = 1
        /\ Committed(proc[p]) /\ Committed(proc[q])
        /\ proc[p].pc = "done" /\ proc[q].pc = "done"
        /\ WrittenRow(proc[q]) \in proc[p].overwrote[1]
        /\ WrittenRow(proc[p]) # WrittenRow(proc[q])
        /\ users = {WrittenRow(proc[p])}


\* the record is what one write of SpecRW stores: the n-th pair with an
\* expiry n after some clock reading
WholeRecord(r) ==
    \E n \in 1..MaxIssued, t \in 0..MaxTime :
        r = Row(loc1, AccessTok(n), RefreshTok(n), adapt_datetime(t + n))

(* C22: under any interleaving of concurrent store_credentials and         *)
(* get_credentials calls for one tenant, every record a reader obtains is  *)
(* one complete record written by a single store_credentials call: its     *)
(* access_token, refresh_token and expires_at never come from two writes.  *)
C22_ReaderNeverSeesTornRecord ==
    \A p \in AllCallers :
        (Finished(p, "get_credentials") /\ proc[p].credentials # <<>>)
        => WholeRecord(proc[p].credentials[1])

\* a reader obtained the record of one write while another write to the
\* same tenant, already executed, had not committed
C22_Witness ==
    \E p \in AllCallers, q \in AllCallers :
        /\ Finished(p, "get_credentials")
        /\ proc[p].credentials # <<>>
        /\ proc[q].op = "store_credentials"
        /\ proc[q].pc = "sc_commit"
        /\ proc[q].txn[1].access_token # proc[p].credentials[1].access_token


----------------------------------------------------------------------------
\* store reads, token-endpoint requests and store writes among the events
\* of a call
IsStoreOrNetwork(ev) == ev \in {"get", "post", "commit"}
Accesses(io) == SelectSeq(io, IsStoreOrNetwork)

IsPrefix(s, t) == Len(s) <= Len(t) /\ \A i \in 1..Len(s) : s[i] = t[i]

\* the call p is running is ensure_valid_token or refresh_access_token
InTokenCall(pr) == pr.op \in {"ensure_valid_token", "refresh_access_token"}

(* C23 as stated: an ensure_valid_token call makes at most one store read, *)
(* one token-endpoint request, one store write and one further store       *)
(* read, in that order.                                                    *)
C23_OneReadBeforeExchange ==
    \A p \in Callers :
        proc[p].op = "ensure_valid_token"
        => IsPrefix(Accesses(proc[p].io), <<"get", "post", "commit", "get">>)

\* the accesses of a call so far are in the order the code makes them
C23_Steps ==
    \A p \in Callers :
        LET pr == proc[p] IN
        /\ pr.op = "ensure_valid_token"
              => IsPrefix(Accesses(pr.io),
                          <<"get", "get", "post", "commit", "get">>)
        /\ pr.op = "refresh_access_token"
              => IsPrefix(Accesses(pr.io), <<"get", "post", "commit">>)
        /\ InTokenCall(pr) => Count(pr.io, "post") <= 1

(* C23 amended: every ensure_valid_token call terminates after at most two *)
(* store reads (its own and the one refresh_access_token makes), one       *)
(* token-endpoint request, one store write and one further store read, in  *)
(* that order; refresh_access_token never sends a second exchange request  *)
(* within one call.                                                        *)
C23_TerminatesAfterBoundedAccesses ==
    /\ []C23_Steps
    /\ \A p \in Callers :
          (InTokenCall(proc[p]) /\ proc[p].pc # "done")
             ~> (proc[p].pc = "done")

C23_Witness ==
    \E p \in Callers :
        /\ Finished(p, "ensure_valid_token")
        /\ proc[p].outcome = "returned"
        /\ Accesses(proc[p].io) = <<"get", "get", "post", "commit", "get">>


\* the call has sent a refresh exchange request
Exchanged(pr) == Count(pr.io, "post") > 0

(* C24: the refresh exchange request of refresh_access_token(L) carries    *)
(* the refresh_token of the record of L loaded from the store in the same  *)
(* call, and never the access token.                                       *)
C24_ExchangeCarriesStoredRefreshToken ==
    \A p \in Callers :
        LET pr == proc[p] IN
        (InTokenCall(pr) /\ Exchanged(pr))
        => /\ pr.raf_credentials # <<>>
           /\ pr.raf_credentials[1] \in Select(pr.pre, pr.location_id)
           /\ pr.sent = pr.raf_credentials[1].refresh_token
           /\ pr.sent # pr.raf_credentials[1].access_token

C24_Witness ==
    \E p \in Callers :
        /\ Finished(p, "refresh_access_token")
        /\ proc[p].outcome = "returned"
        /\ proc[p].sent = RefreshTok(1)
        /\ Truthy(proc[p].raf_credentials[1].access_token)


\* the record has a tenant, both tokens and an expiry
CompleteRecord(r) ==
    /\ Truthy(r.location_id)
    /\ Truthy(r.access_token)
    /\ Truthy(r.refresh_token)
    /\ TruthyTimestamp(r.expires_at)

(* C25: in every reachable state every record in the table has a non-empty *)
(* access_token, a non-empty refresh_token and a set expires_at; no        *)
(* operation leaves a record with only some of these fields written.       *)
C25_RecordsAreComplete == \A r \in users : CompleteRecord(r)

\* a refresh has replaced the record, and a store_credentials call without
\* an access token has been turned away since
C25_Witness ==
    \E p \in Callers :
        /\ Finished(p, "store_credentials")
        /\ ~Truthy(proc[p].access_token)
        /\ Truthy(proc[p].refresh_token)
        /\ proc[p].expires_in = PyInt(1)
        /\ \E r \in users : r.refresh_token = RefreshTok(2)


\* the tenants that have a record
Stored(table) == {r.location_id : r \in table}

(* C26: once a record exists for a tenant it exists in every later state   *)
(* (no operation deletes it), and the reload of ensure_valid_token after a *)
(* successful refresh always finds a record: the 'failed to retrieve       *)
(* updated credentials after refresh' error is never raised.               *)
C26_RecordsNeverDisappear ==
    /\ [][Stored(users) \subseteq Stored(users')]_vars
    /\ [](\A p \in AllCallers : proc[p].cause # "vanished")

C26_Witness ==
    \E p \in Callers :
        /\ Finished(p, "ensure_valid_token")
        /\ proc[p].branch = "expired"
        /\ proc[p].outcome = "returned"
        /\ Committed(proc[p])
        /\ proc[p].credentials[1] \in users


\* the records of the tenants other than l
RecordsOfOthers(table, l) == {r \in table : r.location_id # l}

(* C27: tenant isolation: store_credentials, refresh_access_token and      *)
(* ensure_valid_token for tenant L leave the record of every other tenant  *)
(* unchanged, and the token ensure_valid_token(L) returns is read from the *)
(* record whose location_id is L.                                          *)
C27_TenantIsolation ==
    \A p \in Callers :
        LET pr == proc[p] IN
        /\ pr.op \in {"store_credentials", "refresh_access_token",
                      "ensure_valid_token"}
              => RecordsOfOthers(users, pr.location_id)
                    = RecordsOfOthers(pr.pre, pr.location_id)
        /\ (Finished(p, "ensure_valid_token") /\ pr.outcome = "returned")
              => /\ pr.credentials # <<>>
                 /\ pr.credentials[1].location_id = pr.location_id
                 /\ pr.credentials[1] \in users
                 /\ pr.result = pr.credentials[1].access_token
        /\ pr.raf_credentials # <<>>
              => pr.raf_credentials[1].location_id = pr.location_id

\* the token of loc2 was refreshed and returned while loc1 kept its record
C27_Witness ==
    \E p \in Callers :
        /\ Finished(p, "ensure_valid_token")
        /\ proc[p].outcome = "returned"
        /\ proc[p].location_id = loc2
        /\ Committed(proc[p])
        /\ RecordsOfOthers(users, loc2) # {}
        /\ users # proc[p].pre


----------------------------------------------------------------------------
\* check_inventory has returned its analysis of a non-empty inventory list
Analysed(pr) ==
    /\ pr.op = "check_inventory"
    /\ pr.pc = "done"
    /\ pr.inventory_data[1].inventory # <<>>
    /\ Len(pr.inventory_data[1].inventory[1]) > 0

\* the product's availableQuantity is 0, or it has none
OutOfStock(product) ==
    \/ product.availableQuantity = <<>>
    \/ /\ product.availableQuantity[1].type \in {"int", "float"}
       /\ product.availableQuantity[1].val = 0

(* C28: for every non-empty inventory list check_inventory returns         *)
(* total_products = in_stock_count + out_of_stock_count, out_of_stock_count *)
(* is the length of out_of_stock_products, and a product is listed as out  *)
(* of stock exactly when its availableQuantity is 0 or absent.             *)
C28_AnalysisCountsAddUp ==
    \A p \in Callers :
        LET pr == proc[p] IN
        Analysed(pr)
        => LET inventory_list == pr.inventory_data[1].inventory[1]
               a == pr.analysis[1]
           IN  /\ pr.outcome = "returned"
               /\ a.total_products = Len(inventory_list)
               /\ a.total_products = a.in_stock_count + a.out_of_stock_count
               /\ a.out_of_stock_count = Len(a.out_of_stock_products)
               /\ \A i \in 1..Len(inventory_list) :
                     OutOfStock(inventory_list[i])
                     <=> Cardinality({j \in 1..Len(a.out_of_stock_products) :
                            a.out_of_stock_products[j].variant_id
                               = inventory_list[i]._id}) = 1
               /\ \A j \in 1..Len(a.out_of_stock_products) :
                     \E i \in 1..Len(inventory_list) :
                        a.out_of_stock_products[j].variant_id = inventory_list[i]._id

\* a list with a product without the field, one with 0 and one in stock
C28_Witness ==
    \E p \in Callers :
        /\ Analysed(proc[p])
        /\ proc[p].inventory_data[1].inventory[1]
              = <<Product(1, <<>>), Product(2, <<PyInt(0)>>), Product(3, <<PyInt(1)>>)>>
        /\ proc[p].analysis[1].out_of_stock_count = 2
        /\ proc[p].analysis[1].in_stock_count = 1

====
